---- MODULE Spec2Model ----
(***************************************************************************)
(* Model of src/main.py (code-sorting puzzle): the two segmenters, the     *)
(* puzzle session held by CodeSortingApp (load, drag-and-drop reorder,     *)
(* order check) and the run handlers that write, compile and spawn the     *)
(* reassembled code.                                                       *)
(*                                                                         *)
(* A text is a sequence of one-character strings, a line is a text, a      *)
(* block (fragment) is a sequence of lines.  A filename is the sequence of *)
(* its dot-separated components, so that endswith(".py.txt") is a suffix   *)
(* test on components.                                                     *)
(***************************************************************************)
EXTENDS Integers, Sequences, FiniteSets, TLC

VARIABLES
    \* ---- CodeSortingApp session state -------------------------------
    list_widget,     \* texts of the QListWidget items, top to bottom
    code_blocks,     \* self.code_blocks   (shuffled at load)
    correct_order,   \* self.correct_order (canonical blocks)
    current_file,    \* self.current_file  (<<>> is "")
    label,           \* what self.label shows: <<file, language, difficulty>>
    msg_box,         \* dialog shown by the most recent user operation
    last_check,      \* result of the most recent check_order call
    clock,           \* int(time.time()): the wall clock, in whole seconds
    run_result,      \* <<>>, or <<what the runner just invoked did>>
    written,         \* per temporary name: how many invocations wrote it
    platform_system, \* platform.system()
    \* ---- segmenter harness -------------------------------------------
    lines,           \* input of a segmenter call
    block_size,      \* block_size argument (NoneSize is None)
    blocks,          \* what the segmenter returned
    phase            \* "idle" | "input" | "by_lines" | "logical"

session_vars == <<list_widget, code_blocks, correct_order, current_file, label,
                  msg_box, last_check, clock, run_result, written, platform_system>>
seg_vars == <<lines, block_size, blocks, phase>>
vars == <<list_widget, code_blocks, correct_order, current_file, label,
          msg_box, last_check, clock, run_result, written, platform_system,
          lines, block_size, blocks, phase>>

(***************************************************************************)
(* Bounds of the model.                                                    *)
(***************************************************************************)
MaxSegLines == 5
MaxBlockSize == 3
MaxLogicalLines == 4
MaxClock == 1
MaxRuns == 2

(***************************************************************************)
(* Text helpers: str.strip, str.lstrip(" "), str.startswith, "".join.      *)
(***************************************************************************)
Whitespace == {" ", "\n", "\t"}

RECURSIVE LStrip(_, _)
LStrip(s, chars) ==
    IF s # <<>> /\ Head(s) \in chars THEN LStrip(Tail(s), chars) ELSE s

RECURSIVE RStrip(_, _)
RStrip(s, chars) ==
    IF s # <<>> /\ s[Len(s)] \in chars
    THEN RStrip(SubSeq(s, 1, Len(s) - 1), chars) ELSE s

Strip(s) == RStrip(LStrip(s, Whitespace), Whitespace)

StartsWith(s, prefix) ==
    Len(s) >= Len(prefix) /\ SubSeq(s, 1, Len(prefix)) = prefix

EndsWith(s, suffix) ==
    Len(s) >= Len(suffix) /\ SubSeq(s, Len(s) - Len(suffix) + 1, Len(s)) = suffix

RECURSIVE Join(_)
Join(parts) == IF parts = <<>> THEN <<>> ELSE Head(parts) \o Join(Tail(parts))

\* sequences over S of length 0..n
SeqUpTo(S, n) == UNION {[1..k -> S] : k \in 0..n}

(***************************************************************************)
(* split_into_blocks_by_lines                                              *)
(***************************************************************************)
NoneSize == -1
AutoSmallLimit == 40
AutoMediumLimit == 60
AutoSmallSize == 3
AutoMediumSize == 4
AutoLargeSize == 5

AutoBlockSize(ls, size) ==
    LET non_empty_lines == SelectSeq(ls, LAMBDA line : Strip(line) # <<>>)
        total_lines == Len(non_empty_lines)
    IN  IF size # NoneSize THEN size
        ELSE IF total_lines <= AutoSmallLimit THEN AutoSmallSize
        ELSE IF total_lines <= AutoMediumLimit THEN AutoMediumSize
        ELSE AutoLargeSize

\* the for loop: <<blocks, current_block>> after lines i..Len(ls)
RECURSIVE BlockLoop(_, _, _, _, _)
BlockLoop(ls, i, size, done, current_block) ==
    IF i > Len(ls) THEN <<done, current_block>>
    ELSE IF Strip(ls[i]) = <<>> THEN BlockLoop(ls, i + 1, size, done, current_block)
    ELSE LET grown == Append(current_block, ls[i])
         IN  IF Len(grown) = size
             THEN BlockLoop(ls, i + 1, size, Append(done, grown), <<>>)
             ELSE BlockLoop(ls, i + 1, size, done, grown)

\* mutant: the trailing partial group is forgotten
SplitDroppingPartial(ls, size) ==
    BlockLoop(ls, 1, AutoBlockSize(ls, size), <<>>, <<>>)[1]

\* mutant: the trailing partial group becomes a short final block
SplitShortLastBlock(ls, size) ==
    LET r == BlockLoop(ls, 1, AutoBlockSize(ls, size), <<>>, <<>>)
    IN  IF r[2] # <<>> THEN Append(r[1], r[2]) ELSE r[1]

split_into_blocks_by_lines(ls, size) ==
    LET r == BlockLoop(ls, 1, AutoBlockSize(ls, size), <<>>, <<>>)
        done == r[1]
        current_block == r[2]
    IN  IF current_block # <<>>
        THEN IF done # <<>>
             THEN [done EXCEPT ![Len(done)] = @ \o current_block]
             ELSE <<current_block>>
        ELSE done

(***************************************************************************)
(* split_into_logical_blocks                                               *)
(***************************************************************************)
get_indent(line) == Len(line) - Len(LStrip(line, {" "}))

BlockPrefixes ==
    { <<"d","e","f"," ">>, <<"i","f"," ">>, <<"f","o","r"," ">>,
      <<"w","h","i","l","e"," ">>, <<"t","r","y">>,
      <<"e","x","c","e","p","t">>, <<"e","l","s","e">>,
      <<"e","l","i","f">>, <<"w","i","t","h"," ">> }

IsBlockHeader(stripped) == \E p \in BlockPrefixes : StartsWith(stripped, p)

\* the inner while: first index >= i that is neither blank nor deeper than indent
RECURSIVE BodyEnd(_, _, _)
BodyEnd(ls, i, indent) ==
    IF i <= Len(ls) /\ (Strip(ls[i]) = <<>> \/ get_indent(ls[i]) > indent)
    THEN BodyEnd(ls, i + 1, indent) ELSE i

RECURSIVE LogicalLoop(_, _, _)
LogicalLoop(ls, i, done) ==
    IF i > Len(ls) THEN done
    ELSE IF Strip(ls[i]) = <<>> THEN LogicalLoop(ls, i + 1, done)
    ELSE IF IsBlockHeader(Strip(ls[i]))
         THEN LET j == BodyEnd(ls, i + 1, get_indent(ls[i]))
              IN  LogicalLoop(ls, j, Append(done, SubSeq(ls, i, j - 1)))
         ELSE LogicalLoop(ls, i + 1, Append(done, <<ls[i]>>))

split_into_logical_blocks(ls) == LogicalLoop(ls, 1, <<>>)

(***************************************************************************)
(* Segmenter harness: inputs drawn from bounded sets, one call each.       *)
(***************************************************************************)
LineA == <<"a", "\n">>
LineB == <<"b", "\n">>
LineC == <<"c", "\n">>
LineD == <<"d", "\n">>
BlankLine == <<"\n">>
SpaceLine == <<" ", "\n">>

SegLinePool == {LineA, LineB, LineC, LineD, BlankLine, SpaceLine}
SegInputs == SeqUpTo(SegLinePool, MaxSegLines)
BlockSizes == {NoneSize} \cup (1..MaxBlockSize)

HdrIf == <<"i","f"," ","x",":","\n">>
HdrIfParen == <<"i","f","(","x",")",":","\n">>
HdrElse2 == <<" "," ","e","l","s","e",":","\n">>
Body2 == <<" "," ","y","\n">>
Body4 == <<" "," "," "," ","w","\n">>
TopLine == <<"z","\n">>

LogicalLinePool == {HdrIf, HdrIfParen, HdrElse2, Body2, Body4, TopLine, BlankLine}
LogicalInputs == SeqUpTo(LogicalLinePool, MaxLogicalLines)

(***************************************************************************)
(* The snippets/ tree the session reads: snippets/<language>/<difficulty>. *)
(* cpp/hard exists and is empty, python/medium holds no .txt file,         *)
(* python/hard does not exist.                                             *)
(***************************************************************************)
Languages == {"cpp", "python"}
Difficulties == {"easy", "medium", "hard"}

SameCpp == <<"same", "cpp", "txt">>
LoopPy == <<"loop", "py", "txt">>
BlankPy == <<"blank", "py", "txt">>
PlainTxt == <<"plain", "txt">>
NotesMd == <<"notes", "md">>

FolderExists(language, difficulty) ==
    <<language, difficulty>> # <<"python", "hard">>

ListDir(language, difficulty) ==
    CASE <<language, difficulty>> = <<"cpp", "easy">> -> {SameCpp, NotesMd}
      [] <<language, difficulty>> = <<"cpp", "medium">> -> {PlainTxt}
      [] <<language, difficulty>> = <<"python", "easy">> -> {LoopPy, BlankPy}
      [] <<language, difficulty>> = <<"python", "medium">> -> {NotesMd}
      [] OTHER -> {}

ReadLines(file) ==
    CASE file = SameCpp ->
             <<LineB, LineB, LineB, LineB, LineB, LineB, LineB, LineB, LineB, LineB>>
      [] file = LoopPy ->
             <<LineA, BlankLine, LineB, LineA, LineB, LineA, SpaceLine, LineA, LineB>>
      [] file = BlankPy -> <<BlankLine, SpaceLine>>
      [] file = PlainTxt -> <<LineA, LineB>>
      [] OTHER -> <<>>

\* f.endswith(".<ext>"): the name has a stem before the extension components
EndsWithExt(file, ext) == Len(file) > Len(ext) /\ EndsWith(file, ext)

LoadBlockSize == 3

(***************************************************************************)
(* Session state after CodeSortingApp.__init__.                            *)
(***************************************************************************)
TempNames == (0..MaxClock) \X {"py", "cpp"}

SessionIdle ==
    /\ list_widget = <<>>
    /\ code_blocks = <<>>
    /\ correct_order = <<>>
    /\ current_file = <<>>
    /\ label = <<>>
    /\ msg_box = "none"
    /\ last_check = "none"
    /\ clock = 0
    /\ run_result = <<>>
    /\ written = [n \in TempNames |-> 0]

HarnessIdle ==
    /\ lines = <<>>
    /\ block_size = NoneSize
    /\ blocks = <<>>
    /\ phase = "idle"

Init ==
    /\ SessionIdle
    /\ HarnessIdle
    /\ platform_system \in {"Windows", "Linux"}

(***************************************************************************)
(* load_code_by_language_and_difficulty                                    *)
(***************************************************************************)
Shuffles(n) == {p \in [1..n -> 1..n] : \A i, j \in 1..n : p[i] = p[j] => i = j}

BlockTexts(bs) == [k \in 1..Len(bs) |-> Join(bs[k])]

EligibleFiles(language, difficulty) ==
    {f \in ListDir(language, difficulty) : EndsWithExt(f, <<"txt">>)}

\* self.list_widget.clear(), the handler's first statement
ClearedList(items) == <<>>

LoadFails(message) ==
    /\ list_widget' = ClearedList(list_widget)
    /\ msg_box' = message
    /\ run_result' = <<>>
    /\ UNCHANGED <<code_blocks, correct_order, current_file, label, last_check,
                   clock, written, platform_system>>
    /\ UNCHANGED seg_vars

LoadCode(language, difficulty) ==
    IF ~FolderExists(language, difficulty)
    THEN LoadFails("folder_missing")
    ELSE IF EligibleFiles(language, difficulty) = {}
    THEN LoadFails("folder_empty")
    ELSE \E file \in EligibleFiles(language, difficulty) :
         LET split == split_into_blocks_by_lines(ReadLines(file), LoadBlockSize)
         IN  \E p \in Shuffles(Len(split)) :
                 /\ current_file' = file
                 /\ code_blocks' = [k \in 1..Len(split) |-> split[p[k]]]
                 /\ correct_order' = split
                 /\ list_widget' = BlockTexts(code_blocks')
                 /\ label' = <<file, language, difficulty>>
                 /\ msg_box' = "none"
                 /\ run_result' = <<>>
                 /\ UNCHANGED <<last_check, clock, written, platform_system>>
                 /\ UNCHANGED seg_vars

Load == \E language \in Languages, difficulty \in Difficulties :
            LoadCode(language, difficulty)

(***************************************************************************)
(* Drag and drop inside the list (QListWidget.InternalMove): the item at   *)
(* row from is taken out and put back at row to.                           *)
(***************************************************************************)
MoveItem(items, from, to) ==
    LET without == SubSeq(items, 1, from - 1) \o SubSeq(items, from + 1, Len(items))
    IN  SubSeq(without, 1, to - 1) \o <<items[from]>> \o SubSeq(without, to, Len(without))

Reorder ==
    \E from \in 1..Len(list_widget), to \in 1..Len(list_widget) :
        /\ from # to
        /\ list_widget' = MoveItem(list_widget, from, to)
        /\ msg_box' = "none"
        /\ run_result' = <<>>
        /\ UNCHANGED <<code_blocks, correct_order, current_file, label,
                       last_check, clock, written, platform_system>>
        /\ UNCHANGED seg_vars

(***************************************************************************)
(* check_order                                                             *)
(***************************************************************************)
\* mutant: the rendered texts are compared as one concatenated text
SameConcatenation(user_blocks, correct_blocks) ==
    Join(user_blocks) = Join(correct_blocks)

\* mutant: the texts are compared regardless of their order
SameFragments(user_blocks, correct_blocks) ==
    /\ Len(user_blocks) = Len(correct_blocks)
    /\ \A t \in {user_blocks[k] : k \in 1..Len(user_blocks)} :
           Cardinality({k \in 1..Len(user_blocks) : user_blocks[k] = t})
             = Cardinality({k \in 1..Len(correct_blocks) : correct_blocks[k] = t})

\* user_blocks == correct_blocks, on Python lists of str
SameBlocks(user_blocks, correct_blocks) == user_blocks = correct_blocks

CheckOrder ==
    LET user_blocks == list_widget
        correct_blocks == BlockTexts(correct_order)
        verdict == IF SameBlocks(user_blocks, correct_blocks)
                   THEN "correct" ELSE "incorrect"
    IN  /\ msg_box' = verdict
        /\ last_check' = verdict
        /\ run_result' = <<>>
        /\ UNCHANGED <<list_widget, code_blocks, correct_order, current_file, label,
                       clock, written, platform_system>>
        /\ UNCHANGED seg_vars

(***************************************************************************)
(* run_code, _run_python_code, _run_cpp_code.  outcome is what the host    *)
(* does with the write, the compiler call and the spawn; stderr is the     *)
(* compiler's diagnostic text.  Only the names of the temporary files are  *)
(* kept (written), not their contents.                                     *)
(***************************************************************************)
PythonOutcomes == {"write_error", "spawn_error", "spawned"}
CppOutcomes == {"write_error", "compiler_missing", "compile_failed",
                "spawn_error", "spawned"}
Diagnostics == {"", "error: expected ';'"}

TotalWritten ==
    LET RECURSIVE Sum(_)
        Sum(S) == IF S = {} THEN 0
                  ELSE LET n == CHOOSE x \in S : TRUE IN written[n] + Sum(S \ {n})
    IN  Sum(TempNames)

\* window: the arguments of show_output_window, <<>> when it is not called
RunRecord(lang, outcome, returncode, stderr, spawned, window) ==
    [lang |-> lang, outcome |-> outcome, returncode |-> returncode,
     stderr |-> stderr, spawned |-> spawned, window |-> window]

Wrote(name) == written' = [written EXCEPT ![name] = @ + 1]

run_python_code(timestamp, outcome) ==
    IF platform_system # "Windows"
    THEN /\ outcome = "spawned"
         /\ msg_box' = "unsupported"
         /\ run_result' = <<>>
         /\ UNCHANGED written
    ELSE /\ outcome \in PythonOutcomes
         /\ IF outcome = "write_error"
            THEN /\ UNCHANGED written
                 /\ msg_box' = "run_error"
                 /\ run_result' = <<RunRecord("python", outcome, 0, "", FALSE, <<>>)>>
            ELSE /\ Wrote(<<timestamp, "py">>)
                 /\ msg_box' = IF outcome = "spawned" THEN "none" ELSE "run_error"
                 /\ run_result' = <<RunRecord("python", outcome, 0, "",
                                              outcome = "spawned", <<>>)>>

\* mutant: the executable is started whatever the compiler returned
RunCppIgnoringReturnCode(timestamp, outcome, stderr) ==
    /\ outcome \in {"compile_failed", "spawned"}
    /\ (outcome = "spawned" => platform_system = "Windows" /\ stderr = "")
    /\ Wrote(<<timestamp, "cpp">>)
    /\ msg_box' = "none"
    /\ run_result' = <<RunRecord("cpp", outcome,
                                 IF outcome = "compile_failed" THEN 1 ELSE 0,
                                 stderr, TRUE, <<>>)>>

run_cpp_code(timestamp, outcome, stderr) ==
    /\ outcome \in CppOutcomes
    /\ (outcome # "compile_failed" => stderr = "")
    \* subprocess.CREATE_NEW_CONSOLE exists on Windows only
    /\ (outcome = "spawned" => platform_system = "Windows")
    /\ CASE outcome = "write_error" ->
                /\ UNCHANGED written
                /\ msg_box' = "run_error"
                /\ run_result' = <<RunRecord("cpp", outcome, 0, "", FALSE, <<>>)>>
         [] outcome = "compiler_missing" ->
                /\ Wrote(<<timestamp, "cpp">>)
                /\ msg_box' = "run_error"
                /\ run_result' = <<RunRecord("cpp", outcome, 0, "", FALSE, <<>>)>>
         [] outcome = "compile_failed" ->
                /\ Wrote(<<timestamp, "cpp">>)
                /\ msg_box' = "none"
                /\ run_result' = <<RunRecord("cpp", outcome, 1, stderr, FALSE,
                                             <<"", stderr>>)>>
         [] OTHER ->
                /\ Wrote(<<timestamp, "cpp">>)
                /\ msg_box' = IF outcome = "spawned" THEN "none" ELSE "run_error"
                /\ run_result' = <<RunRecord("cpp", outcome, 0, "",
                                             outcome = "spawned", <<>>)>>

RunDispatch(timestamp, outcome, stderr) ==
    IF EndsWithExt(current_file, <<"py", "txt">>)
    THEN stderr = "" /\ run_python_code(timestamp, outcome)
    ELSE IF EndsWithExt(current_file, <<"cpp", "txt">>)
    THEN run_cpp_code(timestamp, outcome, stderr)
    ELSE /\ outcome = "spawned" /\ stderr = ""
         /\ msg_box' = "none"
         /\ run_result' = <<>>
         /\ UNCHANGED written

\* mutant: the arrangement is not compared before running
RunCodeUnguarded(timestamp, outcome, stderr) ==
    RunDispatch(timestamp, outcome, stderr)

run_code(timestamp, outcome, stderr) ==
    LET user_blocks == list_widget
        correct_blocks == BlockTexts(correct_order)
    IN  IF user_blocks # correct_blocks
        THEN /\ outcome = "spawned" /\ stderr = ""
             /\ msg_box' = "wrong_order"
             /\ run_result' = <<>>
             /\ UNCHANGED written
        ELSE RunDispatch(timestamp, outcome, stderr)

RunCode ==
    /\ TotalWritten < MaxRuns
    /\ \E outcome \in CppOutcomes, stderr \in Diagnostics :
           run_code(clock, outcome, stderr)
    /\ UNCHANGED <<list_widget, code_blocks, correct_order, current_file, label,
                   last_check, clock, platform_system>>
    /\ UNCHANGED seg_vars

\* a second passes
Tick ==
    /\ clock < MaxClock
    /\ clock' = clock + 1
    /\ UNCHANGED <<list_widget, code_blocks, correct_order, current_file, label,
                   msg_box, last_check, run_result, written, platform_system>>
    /\ UNCHANGED seg_vars

Next == Load \/ Reorder \/ CheckOrder \/ RunCode \/ Tick

Spec == Init /\ [][Next]_vars

(***************************************************************************)
(* Segmenter harness: one call on an input drawn from a bounded set.       *)
(***************************************************************************)
InitSeg ==
    /\ SessionIdle
    /\ platform_system = "Windows"
    /\ lines \in SegInputs
    /\ block_size \in BlockSizes
    /\ blocks = <<>>
    /\ phase = "input"

SplitByLines ==
    /\ phase = "input"
    /\ blocks' = split_into_blocks_by_lines(lines, block_size)
    /\ phase' = "by_lines"
    /\ UNCHANGED <<lines, block_size>>
    /\ UNCHANGED session_vars

NextSeg == SplitByLines

SpecSeg == InitSeg /\ [][NextSeg]_vars

InitLogical ==
    /\ SessionIdle
    /\ platform_system = "Windows"
    /\ lines \in LogicalInputs
    /\ block_size = NoneSize
    /\ blocks = <<>>
    /\ phase = "input"

SplitLogical ==
    /\ phase = "input"
    /\ blocks' = split_into_logical_blocks(lines)
    /\ phase' = "logical"
    /\ UNCHANGED <<lines, block_size>>
    /\ UNCHANGED session_vars

NextLogical == SplitLogical

SpecLogical == InitLogical /\ [][NextLogical]_vars

(***************************************************************************)
(* Vocabulary of the properties.                                           *)
(***************************************************************************)
AllWhitespace(line) == \A i \in 1..Len(line) : line[i] \in Whitespace

NonBlankLines(ls) == SelectSeq(ls, LAMBDA line : ~AllWhitespace(line))

Keywords ==
    { <<"d","e","f">>, <<"i","f">>, <<"f","o","r">>, <<"w","h","i","l","e">>,
      <<"t","r","y">>, <<"e","x","c","e","p","t">>, <<"e","l","s","e">>,
      <<"e","l","i","f">>, <<"w","i","t","h">> }

IdentChars ==
    { "a","b","c","d","e","f","h","i","l","o","p","r","s","t","w","x","y","z","_" }

\* the trimmed text begins with a keyword token
BeginsWithKeyword(stripped) ==
    \E kw \in Keywords :
        /\ StartsWith(stripped, kw)
        /\ (Len(stripped) = Len(kw) \/ stripped[Len(kw) + 1] \notin IdentChars)

RECURSIVE SkipBlank(_, _)
SkipBlank(ls, i) ==
    IF i <= Len(ls) /\ AllWhitespace(ls[i]) THEN SkipBlank(ls, i + 1) ELSE i

\* index in ls of the first line of fragment k of bs
RECURSIVE FragmentStart(_, _, _)
FragmentStart(ls, bs, k) ==
    IF k = 1 THEN SkipBlank(ls, 1)
    ELSE SkipBlank(ls, FragmentStart(ls, bs, k - 1) + Len(bs[k - 1]))

InBody(ls, header, m) ==
    AllWhitespace(ls[m]) \/ get_indent(ls[m]) > get_indent(ls[header])

\* last line before the first non-blank line not indented deeper than the header
BodyLast(ls, header) ==
    CHOOSE j \in header..Len(ls) :
        /\ \A m \in (header + 1)..j : InBody(ls, header, m)
        /\ (j = Len(ls) \/ ~InBody(ls, header, j + 1))

\* last non-blank line of the header's body (the header itself if it has none)
DeepLast(ls, header) ==
    CHOOSE j \in header..BodyLast(ls, header) :
        /\ (j = header \/ ~AllWhitespace(ls[j]))
        /\ \A m \in (j + 1)..BodyLast(ls, header) : AllWhitespace(ls[m])

\* fragment k of bs is the header at s with its whole body: it reaches the
\* last body line and stops before the first non-blank line not indented deeper
HoldsWholeBody(ls, bs, k, s) ==
    LET last == s + Len(bs[k]) - 1
    IN  /\ last >= DeepLast(ls, s)
        /\ last <= BodyLast(ls, s)
        /\ bs[k] = SubSeq(ls, s, last)

(***************************************************************************)
(* Properties of the puzzle session (under Spec).                          *)
(***************************************************************************)
CanonicalTexts == BlockTexts(correct_order)

Occurrences(texts, t) == Cardinality({k \in 1..Len(texts) : texts[k] = t})

SameMultiset(a, b) ==
    /\ Len(a) = Len(b)
    /\ \A k \in 1..Len(a) : Occurrences(a, a[k]) = Occurrences(b, a[k])

\* the arrangement has, at every row, the text of the canonical block of that row
RowByRowCanonical ==
    /\ Len(list_widget) = Len(correct_order)
    /\ \A k \in 1..Len(list_widget) : list_widget[k] = Join(correct_order[k])

Swapped(texts, i, j) == [texts EXCEPT ![i] = texts[j], ![j] = texts[i]]

Checked == msg_box \in {"correct", "incorrect"}

\* the runner just invoked wrote its temporary file (and went on from there)
Executed == run_result # <<>> /\ run_result[1].outcome # "write_error"

\* C1: once a puzzle has been loaded, after any sequence of loads (failing
\* ones included), reorders, checks and runs, the texts shown in the list are
\* a permutation of the canonical fragment texts (same multiset).
C1_WorkingIsPermutation ==
    current_file # <<>> => SameMultiset(list_widget, CanonicalTexts)

\* C2 as claimed: on an arrangement that is a permutation of the canonical
\* fragments, the order check answers "correct" exactly when the concatenated
\* text of the arrangement equals the concatenated canonical text.
C2_ConcatenationDecides ==
    (Checked /\ SameMultiset(list_widget, CanonicalTexts)) =>
        (msg_box = "correct" <=> Join(list_widget) = Join(CanonicalTexts))

\* C2 as amended: on such an arrangement the order check answers "correct"
\* exactly when every row holds the text of the canonical fragment of that
\* row; equal concatenated text follows from "correct" but does not imply it.
C2_RowByRowDecides ==
    (Checked /\ SameMultiset(list_widget, CanonicalTexts)) =>
        /\ msg_box = "correct" <=> RowByRowCanonical
        /\ msg_box = "correct" => Join(list_widget) = Join(CanonicalTexts)

\* C2 witness: a checked permutation with the canonical concatenation, rejected
C2_Witness ==
    /\ msg_box = "incorrect"
    /\ SameMultiset(list_widget, CanonicalTexts)
    /\ Join(list_widget) = Join(CanonicalTexts)

\* C3 as claimed: with at least two canonical fragments, the check answers
\* "incorrect" on the canonical order with any two positions exchanged, and
\* "correct" on the canonical order itself.
C3_AnySwapRejected ==
    (Checked /\ Len(correct_order) >= 2) =>
        /\ (\E i, j \in 1..Len(correct_order) :
               i < j /\ list_widget = Swapped(CanonicalTexts, i, j))
             => msg_box = "incorrect"
        /\ list_widget = CanonicalTexts => msg_box = "correct"

\* C3 as amended: with at least two canonical fragments, the check answers
\* "incorrect" on the canonical order with two positions exchanged whose
\* fragment texts differ, and "correct" on the canonical order itself.
C3_DistinctSwapRejected ==
    (Checked /\ Len(correct_order) >= 2) =>
        /\ (\E i, j \in 1..Len(correct_order) :
               /\ i < j
               /\ CanonicalTexts[i] # CanonicalTexts[j]
               /\ list_widget = Swapped(CanonicalTexts, i, j))
             => msg_box = "incorrect"
        /\ list_widget = CanonicalTexts => msg_box = "correct"

\* C3 witness: two fragments with different texts exchanged, checked, rejected
C3_Witness ==
    /\ msg_box = "incorrect"
    /\ \E i, j \in 1..Len(correct_order) :
           /\ i < j
           /\ CanonicalTexts[i] # CanonicalTexts[j]
           /\ list_widget = Swapped(CanonicalTexts, i, j)

\* C4: a load that fails (folder missing, or no eligible file in it) leaves
\* the canonical order, the arrangement in the list and the current filename
\* as they were.
C4_FailedLoadChangesNothing ==
    [][\A language \in Languages, difficulty \in Difficulties :
           (EligibleFiles(language, difficulty) = {} /\ LoadCode(language, difficulty))
               => UNCHANGED <<correct_order, list_widget, current_file>>]_vars

\* C5 as claimed: a run request writes its temporary file (and compiles or
\* spawns) only if the most recent order check answered "correct".
C5_RunOnlyAfterSuccessfulCheck ==
    Executed => last_check = "correct"

\* C5 as amended: a run request writes its temporary file (and compiles or
\* spawns) only if, when it is made, every row of the list holds the text of
\* the canonical fragment of that row; no earlier order check is needed.
C5_RunOnlyWhenArranged ==
    Executed => RowByRowCanonical

\* C5 witness: a process was spawned although no order check was ever made
C5_Witness ==
    /\ Executed
    /\ run_result[1].spawned
    /\ last_check = "none"
    /\ Len(correct_order) >= 2

\* C6: when the compiler returns non-zero, no process is spawned in that
\* invocation and the output window gets empty output and the compiler's
\* diagnostic text as errors.
C6_FailedCompileSpawnsNothing ==
    (run_result # <<>> /\ run_result[1].lang = "cpp" /\ run_result[1].returncode # 0) =>
        /\ ~run_result[1].spawned
        /\ run_result[1].window = <<"", run_result[1].stderr>>

\* C6 witness: a compilation failed with a diagnostic text
C6_Witness ==
    /\ run_result # <<>>
    /\ run_result[1].lang = "cpp"
    /\ run_result[1].returncode # 0
    /\ run_result[1].stderr # ""

\* C7: no temporary name is written by two invocations.
C7_FreshTemporaryNames ==
    \A n \in TempNames : written[n] <= 1

\* C11: a source with no non-blank line segments to no fragment, and no load
\* builds a puzzle from it: once a file has been loaded the canonical
\* fragment set is never empty, so the order check never answers "correct"
\* on a loaded puzzle of zero fragments.
C11_NoEmptyPuzzleLoaded ==
    /\ NonBlankLines(ReadLines(BlankPy)) = <<>>
    /\ split_into_blocks_by_lines(ReadLines(BlankPy), LoadBlockSize) = <<>>
    /\ current_file # <<>> => correct_order # <<>>
    /\ (current_file # <<>> /\ msg_box = "correct") => correct_order # <<>>

(***************************************************************************)
(* Properties of the fixed-size segmenter (under SpecSeg).                 *)
(***************************************************************************)

\* C8: for an input with at least one non-blank line and block_size >= 1,
\* the returned blocks, concatenated in emitted order, are exactly the input's
\* non-blank lines in their original order, and no block holds a blank or
\* whitespace-only line.
C8_RoundTrip ==
    (phase = "by_lines" /\ NonBlankLines(lines) # <<>> /\ block_size >= 1) =>
        /\ Join(blocks) = NonBlankLines(lines)
        /\ \A k \in 1..Len(blocks) : \A i \in 1..Len(blocks[k]) :
               ~AllWhitespace(blocks[k][i])

\* C8 witness: an input with blank and whitespace-only lines whose trailing
\* partial group was merged into the completed block
C8_Witness ==
    /\ phase = "by_lines"
    /\ block_size = 2
    /\ \E i, j \in 1..Len(lines) : lines[i] = BlankLine /\ lines[j] = SpaceLine
    /\ Len(NonBlankLines(lines)) = 3
    /\ Len(blocks) = 1
    /\ Join(blocks) = NonBlankLines(lines)

ExampleInput == <<LineA, BlankLine, LineB, LineC, LineD>>

\* C9: with n non-blank lines and block size b >= 1: if 0 < n < b the result
\* is one block of n lines; otherwise there are n \div b blocks, all but the
\* last of exactly b lines and the last of b + (n % b) lines.  The input
\* [a, blank, b, c, d] with b = 3 yields the single block [a, b, c, d].
C9_BlockShape ==
    (phase = "by_lines" /\ block_size >= 1) =>
        LET n == Len(NonBlankLines(lines))
            b == block_size
        IN  /\ IF 0 < n /\ n < b
               THEN Len(blocks) = 1 /\ Len(blocks[1]) = n
               ELSE /\ Len(blocks) = n \div b
                    /\ \A k \in 1..(Len(blocks) - 1) : Len(blocks[k]) = b
                    /\ Len(blocks) > 0 => Len(blocks[Len(blocks)]) = b + (n % b)
            /\ (lines = ExampleInput /\ b = 3) =>
                   blocks = << <<LineA, LineB, LineC, LineD>> >>

\* C9 witness: the example input was segmented with block size 3
C9_Witness ==
    /\ phase = "by_lines"
    /\ lines = ExampleInput
    /\ block_size = 3
    /\ blocks = << <<LineA, LineB, LineC, LineD>> >>

(***************************************************************************)
(* Properties of the logical-block segmenter (under SpecLogical).          *)
(***************************************************************************)

\* C10: for every fragment whose first line's trimmed text begins with a
\* block-introducing keyword, the fragment is that header together with every
\* following line that is blank or indented strictly deeper than the header,
\* up to the first non-blank line indented no deeper than the header: header
\* and body are never split across fragments.
C10_BlockAtomicity ==
    phase = "logical" =>
        \A k \in 1..Len(blocks) :
            LET s == FragmentStart(lines, blocks, k)
            IN  BeginsWithKeyword(Strip(lines[s])) =>
                    HoldsWholeBody(lines, blocks, k, s)

\* The same statement restricted to the headers the code's prefix test
\* recognises (keyword followed by a space for def, if, for, while, with).
LogicalHeadersAtomic ==
    phase = "logical" =>
        \A k \in 1..Len(blocks) :
            LET s == FragmentStart(lines, blocks, k)
            IN  IsBlockHeader(Strip(lines[s])) =>
                    HoldsWholeBody(lines, blocks, k, s)

====
